---- MODULE Spec2Model ----
(***************************************************************************)
(* WATERSCOPE: a model of the token manager (src/src/sentinel_hub/auth.py) *)
(* and of the surface-area estimator (src/process_api_fixed.py).           *)
(*                                                                         *)
(* Time is counted in seconds.  A token is identified by the number (1,    *)
(* 2, ...) of the credential exchange that delivered it, so two tokens are *)
(* equal exactly when they come from the same exchange.  Python's None is  *)
(* 0 for a token and for a time of expiry.                                 *)
(***************************************************************************)
EXTENDS Integers, Sequences, FiniteSets, TLC

None == 0               \* auth.py:37-38  the empty cache slots
Absent == 0 - 1         \* a response without the key expires_in
NotANumber == 0 - 2     \* a response whose expires_in is no number

(***************************************************************************)
(* Bounds of the model.                                                    *)
(***************************************************************************)
MaxTicks == 10          \* the clock stops after this many ticks
TickSeconds == 100      \* seconds that pass in one tick of the clock
MaxExchanges == 3       \* credential exchanges issued in one behaviour
NThreads == 2           \* callers sharing one token manager (SpecConc)
MaxConcTicks == 3       \* ticks of the clock under SpecConc
MaxConcExchanges == 2   \* credential exchanges issued under SpecConc
MaxPoints == 3          \* measurements in one series handed to the analytics
MaxConfigs == 2         \* entries of the waterbody configuration file
MaxRuns == 2            \* runs of ingest_all the scheduler starts

(***************************************************************************)
(* Program constants of auth.py.                                           *)
(***************************************************************************)
BufferMinutes == 5          \* auth.py:62  timedelta(minutes=5)
DefaultExpiresIn == 600     \* auth.py:88  data.get('expires_in', 600)
Unauthorized == 401         \* auth.py:100 e.response.status_code == 401

(***************************************************************************)
(* Program constants of api/routes/analytics.py.                           *)
(***************************************************************************)
LowFloor == 5               \* analytics.py:120  percentage_change >= -5
MediumFloor == 15           \* analytics.py:122  percentage_change >= -15
HighFloor == 30             \* analytics.py:124  percentage_change >= -30
TrendBandPercent == 2       \* analytics.py:134  older_avg * 1.02, * 0.98
DirectionBandPercent == 2   \* analytics.py:242  percentage_change > 2, < -2
MinMonths == 3              \* analytics.py:197  Query(12, ge=3, le=60)
DefaultMonths == 12         \* analytics.py:197
MaxMonths == 60             \* analytics.py:197
Ok == 200                   \* the status of a returned assessment
NotFound == 404             \* analytics.py:177, 223
ServerError == 500          \* analytics.py:186, 264

(***************************************************************************)
(* Program constants of the two evalscripts.                               *)
(***************************************************************************)
EpsilonTenThousandths == 1  \* process_api.py:163  + 0.0001
ThresholdTenths == 2        \* process_api.py:174  ndwi > 0.2
FixedThresholdTenths == 0   \* process_api_fixed.py:154  ndwi > 0.0
CloudShadow == 3            \* process_api.py:167  sample.SCL == 3
CloudMedium == 8            \* process_api.py:167  sample.SCL == 8
CloudHigh == 9              \* process_api.py:167  sample.SCL == 9

Threads == 1..NThreads

(***************************************************************************)
(* What the identity service can answer to one POST (auth.py:74-85).       *)
(*   transport : requests raised a RequestException (timeout, connection)  *)
(*   http      : a non-2xx status, raise_for_status() raises HTTPError     *)
(*   ok        : status 200 with a JSON object; access_token may be        *)
(*               missing; expires_in may be missing (Absent), a number,    *)
(*               or not a number (NotANumber: a string, null)              *)
(***************************************************************************)
ExpiresInValues == {300, 900}
HttpErrorStatuses == {Unauthorized, 500}

Responses ==
    {[kind |-> "transport", status |-> 0, has_token |-> FALSE, expires_in |-> Absent]}
    \cup {[kind |-> "http", status |-> s, has_token |-> FALSE, expires_in |-> Absent] :
            s \in HttpErrorStatuses}
    \cup {[kind |-> "ok", status |-> 200, has_token |-> h, expires_in |-> e] :
            h \in BOOLEAN, e \in ExpiresInValues \cup {Absent, NotANumber}}

NoResponse == [kind |-> "none", status |-> 0, has_token |-> FALSE, expires_in |-> Absent]

VARIABLES
    access_token,       \* SentinelHubAuth.access_token: None or a token
    token_expires_at,   \* SentinelHubAuth.token_expires_at: None or a time
    expiry_of,          \* history: the exchange whose lifetime token_expires_at holds
    now,                \* datetime.now()
    exchanges,          \* POSTs issued to the identity service so far
    pc,                 \* pc[t]: where caller t is inside get_token()
    call,               \* call[t]: the record of caller t's current get_token() call
    prev                \* the record of the last completed get_token() call

authVars == <<access_token, token_expires_at, expiry_of, now, exchanges, pc, call, prev>>

VARIABLES
    epc,                \* where the caller is inside calculate_water_surface()
    geometry,           \* the geometry argument
    response_content,   \* response.content of the imagery service's answer
    result,             \* the dictionary _process_response returned
    returned            \* what calculate_water_surface gave its caller

estVars == <<epc, geometry, response_content, result, returned>>

VARIABLES
    endpoint,           \* the analytics route that served the last request
    months,             \* analyze_trend's query parameter months
    results,            \* what get_waterbody_timeseries returned to the route
    analysis,           \* the assessment the route computed, or None
    reply               \* the HTTP status the route answered with

anaVars == <<endpoint, months, results, analysis, reply>>

VARIABLES
    ipc,                \* where the run is inside ingest_all / ingest_waterbody
    runs,               \* runs of ingest_all the scheduler has started
    waterbodies,        \* the configurations load_waterbody_configs returned
    position,           \* the configuration the loop of ingest_all is at
    response_data,      \* the raster the imagery service returned for the item
    run_results,        \* ingest_all's list results
    documents,          \* the documents the repository holds
    summary,            \* the summary ingest_all returned
    run_raised,         \* the exception that left ingest_all, if any
    log                 \* history: what the run asked of the outside world

ingVars == <<ipc, runs, waterbodies, position, response_data, run_results, documents,
             summary, run_raised, log>>

VARIABLES
    time_range,         \* _build_payload's argument (start_date, end_date)
    payload_geometry,   \* _build_payload's argument geometry
    payload             \* the payload _build_payload returned

payVars == <<time_range, payload_geometry, payload>>

VARIABLES
    script,             \* the evalscript the imagery service runs
    sample,             \* the sample handed to evaluatePixel
    pixel,              \* the value evaluatePixel returned
    zero_division       \* history: evaluatePixel divided by zero

pixVars == <<script, sample, pixel, zero_division>>

VARIABLES
    es_pc,              \* where WaterScopeESClient.__init__ is
    attempt,            \* the loop variable of the connection probe
    pings,              \* history: what each es.ping() did
    es_error,           \* the message of the exception __init__ raised
    index_calls,        \* history: the calls made on es.indices
    es_indexed          \* documents written through the client

esVars == <<es_pc, attempt, pings, es_error, index_calls, es_indexed>>

VARIABLES
    stored,             \* the repository has been filled
    store,              \* the series the repository holds, by waterbody
    listed,             \* the list routes that have answered
    listing             \* listing[impl]: the list the route of impl answered with

lstVars == <<stored, store, listed, listing>>

VARIABLES
    delivered_to,       \* the route that served the request
    delivered,          \* the series as the repository delivered it
    delivered_months,   \* analyze_trend's query parameter months
    assessment          \* the assessment the route computed, or None

ordVars == <<delivered_to, delivered, delivered_months, assessment>>

restVars == <<anaVars, ingVars, payVars, pixVars, esVars, lstVars, ordVars>>

vars == <<authVars, estVars, restVars>>

(***************************************************************************)
(* auth.py:56-62  _is_token_valid, on the values it reads.                 *)
(***************************************************************************)
IsTokenValid_NoBuffer(tok, exp, t) ==
    /\ tok # None
    /\ exp # None
    /\ t < exp

IsTokenValid(tok, exp, t) ==
    /\ tok # None
    /\ exp # None
    /\ t < exp - BufferMinutes * 60

(***************************************************************************)
(* auth.py:88  expires_in = data.get('expires_in', 600)                    *)
(***************************************************************************)
ExpiresIn_DefaultHour(r) ==
    IF r.expires_in = Absent THEN 3600 ELSE r.expires_in

ExpiresIn(r) ==
    IF r.expires_in = Absent THEN DefaultExpiresIn ELSE r.expires_in

(***************************************************************************)
(* auth.py:96-105  the exception raised for an HTTPError, by its message.  *)
(***************************************************************************)
HttpErrorKind_Generic(status) == "FetchError"

HttpErrorKind(status) ==
    IF status = Unauthorized THEN "AuthenticationError" ELSE "FetchError"

NoCall ==
    [startNow |-> 0, startTok |-> None, startExp |-> None, sawMixed |-> FALSE,
     posts |-> 0,
     resp |-> NoResponse, newTok |-> None, storedAt |-> 0,
     outcome |-> "none", ret |-> None]

NoPrev == [outcome |-> "none", ret |-> None, posts |-> 0]

InitAuth ==
    /\ access_token = None          \* auth.py:37
    /\ token_expires_at = None      \* auth.py:38
    /\ expiry_of = None
    /\ now = TickSeconds
    /\ exchanges = 0
    /\ pc = [t \in Threads |-> "idle"]
    /\ call = [t \in Threads |-> NoCall]
    /\ prev = NoPrev

(***************************************************************************)
(* The clock.                                                              *)
(***************************************************************************)
Tick ==
    /\ now \div TickSeconds < MaxTicks
    /\ now' = now + TickSeconds
    /\ UNCHANGED <<access_token, token_expires_at, expiry_of, exchanges, pc, call, prev>>

(***************************************************************************)
(* auth.py:42-54  get_token: the validity check; a valid cache is returned *)
(* at once, otherwise the caller goes on to _fetch_new_token.              *)
(***************************************************************************)
GetToken(t) ==
    /\ pc[t] = "idle"
    /\ exchanges < MaxExchanges
    /\ LET c == [NoCall EXCEPT !.startNow = now, !.startTok = access_token,
                               !.startExp = token_expires_at,
                               !.sawMixed = /\ access_token # None
                                            /\ token_expires_at # None
                                            /\ expiry_of # access_token]
       IN  IF IsTokenValid(access_token, token_expires_at, now)
           THEN /\ call' = [call EXCEPT ![t] = [c EXCEPT !.outcome = "cached",
                                                         !.ret = access_token]]
                /\ pc' = [pc EXCEPT ![t] = "done"]
           ELSE /\ call' = [call EXCEPT ![t] = c]
                /\ pc' = [pc EXCEPT ![t] = "post"]
    /\ UNCHANGED <<access_token, token_expires_at, expiry_of, now, exchanges, prev>>

(***************************************************************************)
(* auth.py:74-85  the POST, raise_for_status() and response.json().        *)
(* auth.py:96-108 the two except clauses.                                  *)
(***************************************************************************)
Raise(t, c, kind) ==
    /\ call' = [call EXCEPT ![t] = [c EXCEPT !.outcome = kind, !.ret = None]]
    /\ pc' = [pc EXCEPT ![t] = "done"]

Post(t) ==
    /\ pc[t] = "post"
    /\ exchanges' = exchanges + 1
    /\ \E r \in Responses :
         LET c == [call[t] EXCEPT !.posts = @ + 1, !.resp = r,
                                  !.newTok = exchanges + 1]
         IN  CASE r.kind = "transport" -> Raise(t, c, "NetworkError")
               [] r.kind = "http" -> Raise(t, c, HttpErrorKind(r.status))
               [] OTHER -> /\ call' = [call EXCEPT ![t] = c]
                           /\ pc' = [pc EXCEPT ![t] = "store_token"]
    /\ UNCHANGED <<access_token, token_expires_at, expiry_of, now, prev>>

(***************************************************************************)
(* auth.py:86  self.access_token = data['access_token']                    *)
(* A missing key raises KeyError, which neither except clause catches.     *)
(***************************************************************************)
StoreToken(t) ==
    /\ pc[t] = "store_token"
    /\ IF call[t].resp.has_token
       THEN /\ access_token' = call[t].newTok
            /\ pc' = [pc EXCEPT ![t] = "store_expiry"]
            /\ UNCHANGED call
       ELSE /\ Raise(t, call[t], "KeyError")
            /\ UNCHANGED access_token
    /\ UNCHANGED <<token_expires_at, expiry_of, now, exchanges, prev>>

(***************************************************************************)
(* auth.py:88-89  token_expires_at = now() + timedelta(seconds=expires_in) *)
(* An expires_in that is not a number raises TypeError, uncaught, after    *)
(* access_token has been assigned.                                         *)
(***************************************************************************)
StoreExpiry(t) ==
    /\ pc[t] = "store_expiry"
    /\ IF call[t].resp.expires_in = NotANumber
       THEN /\ Raise(t, call[t], "TypeError")
            /\ UNCHANGED <<token_expires_at, expiry_of>>
       ELSE /\ token_expires_at' = now + ExpiresIn(call[t].resp)
            /\ expiry_of' = call[t].newTok
            /\ call' = [call EXCEPT ![t].storedAt = now]
            /\ pc' = [pc EXCEPT ![t] = "return"]
    /\ UNCHANGED <<access_token, now, exchanges, prev>>

(***************************************************************************)
(* auth.py:94  return self.access_token                                    *)
(***************************************************************************)
ReturnToken(t) ==
    /\ pc[t] = "return"
    /\ call' = [call EXCEPT ![t].outcome = "fetched", ![t].ret = access_token]
    /\ pc' = [pc EXCEPT ![t] = "done"]
    /\ UNCHANGED <<access_token, token_expires_at, expiry_of, now, exchanges, prev>>

(***************************************************************************)
(* The caller has its answer (a token or an exception) and is free to call *)
(* again.                                                                  *)
(***************************************************************************)
Finish(t) ==
    /\ pc[t] = "done"
    /\ prev' = [outcome |-> call[t].outcome, ret |-> call[t].ret,
                posts |-> call[t].posts]
    /\ pc' = [pc EXCEPT ![t] = "idle"]
    /\ call' = [call EXCEPT ![t] = NoCall]
    /\ UNCHANGED <<access_token, token_expires_at, expiry_of, now, exchanges>>

(***************************************************************************)
(* The surface-area estimator: process_api_fixed.py, _process_response.    *)
(*                                                                         *)
(* A raster is its flattened grid, a sequence of pixel values (1 = water). *)
(* Coordinates are in half degrees, <<lon, lat>>.  Floating point is       *)
(* replaced by fixed point: angles in microradians, cosines in millionths, *)
(* areas in hundredths of a hectare (the 2 decimals the code rounds to),   *)
(* the water fraction in ten-thousandths (the 4 decimals it rounds to).    *)
(***************************************************************************)
MaxPixels == 3          \* pixels of a raster
MaxRing == 2            \* vertices of a generated ring

KmPerDegreeCenti == 11132   \* process_api_fixed.py:264  111.32 km, in 1/100 km

Million == 1000 * 1000

PixelValues == 0..2
Rasters == UNION {[1..n -> PixelValues] : n \in 0..MaxPixels}

(***************************************************************************)
(* The bytes of a response.  A file is a TIFF holding a grid, or bytes no  *)
(* image decoder reads.  The payload is a tar archive of named members, or *)
(* a bare file.                                                            *)
(***************************************************************************)
Garbage == [type |-> "garbage", grid |-> <<>>]
Files == {Garbage} \cup {[type |-> "tiff", grid |-> r] : r \in Rasters}
Extensions == {"tif", "tiff", "png"}
UserData == [ext |-> "json", data |-> Garbage]
Members == {[ext |-> e, data |-> f] : e \in Extensions, f \in Files}
MemberLists == {<<>>, <<UserData>>} \cup {<<m>> : m \in Members}
                 \cup {<<UserData, m>> : m \in Members}
Payloads ==
    {[tar |-> FALSE, body |-> f, members |-> <<>>] : f \in Files}
    \cup {[tar |-> TRUE, body |-> Garbage, members |-> ms] : ms \in MemberLists}

NoPayload == [tar |-> FALSE, body |-> [type |-> "none", grid |-> <<>>], members |-> <<>>]

(***************************************************************************)
(* Geometries: GeoJSON polygons {"coordinates": [ring]} with latitudes in  *)
(* [-90, 90] degrees.  A geometry may also hold no ring, or an empty ring. *)
(***************************************************************************)
GridPoints == {<<lon, lat>> : lon \in {0, 2}, lat \in {89, 91}}
UnitAt45 == <<(<<0, 89>>), (<<2, 89>>), (<<2, 91>>), (<<1, 91>>), (<<0, 91>>), (<<0, 89>>)>>
AralBox == <<(<<117, 90>>), (<<119, 90>>), (<<119, 92>>), (<<117, 92>>), (<<117, 90>>)>>
EquatorBox == <<(<<0, 0 - 2>>), (<<4, 0 - 2>>), (<<4, 2>>), (<<0, 2>>), (<<0, 0 - 2>>)>>
SouthBox == <<(<<0 - 142, 0 - 66>>), (<<0 - 140, 0 - 66>>), (<<0 - 140, 0 - 62>>),
              (<<0 - 142, 0 - 62>>), (<<0 - 142, 0 - 66>>)>>
PolarCap == <<(<<0, 180>>), (<<4, 176>>), (<<0, 176>>), (<<0, 180>>)>>
Rings ==
    UNION {[1..n -> GridPoints] : n \in 0..MaxRing}
    \cup {UnitAt45, AralBox, EquatorBox, SouthBox, PolarCap}
Geometries ==
    {[coordinates |-> <<>>]} \cup {[coordinates |-> <<ring>>] : ring \in Rings}

NoGeometry == [coordinates |-> <<>>]

(***************************************************************************)
(* Fixed-point arithmetic.                                                 *)
(***************************************************************************)
Abs(x) == IF x < 0 THEN 0 - x ELSE x

\* a / b rounded to the nearest integer, for a >= 0 and b > 0
RoundDiv(a, b) == (a \div b) + (IF 2 * (a % b) >= b THEN 1 ELSE 0)

\* a * b / 1000000 for a, b >= 0, without leaving 32 bits
MulMillionth(a, b) ==
    LET a1 == a \div 1000
        a0 == a % 1000
        b1 == b \div 1000
        b0 == b % 1000
    IN  a1 * b1 + (a1 * b0 + a0 * b1 + (a0 * b0) \div 1000) \div 1000

\* np.cos: the cosine, in millionths, of x microradians, 0 <= x <= pi/2
CosMicro(x) ==
    LET x2 == MulMillionth(x, x)
        t1 == x2 \div 2
        t2 == MulMillionth(t1, x2) \div 12
        t3 == MulMillionth(t2, x2) \div 30
        t4 == MulMillionth(t3, x2) \div 56
        t5 == MulMillionth(t4, x2) \div 90
        t6 == MulMillionth(t5, x2) \div 132
        t7 == MulMillionth(t6, x2) \div 182
    IN  Million - t1 + t2 - t3 + t4 - t5 + t6 - t7

SetMax(S) == CHOOSE x \in S : \A y \in S : y <= x
SetMin(S) == CHOOSE x \in S : \A y \in S : x <= y

RECURSIVE SeqSum(_)
SeqSum(q) == IF q = <<>> THEN 0 ELSE Head(q) + SeqSum(Tail(q))

(***************************************************************************)
(* process_api_fixed.py:255-259  lons, lats and their ranges.              *)
(***************************************************************************)
Lons(coords) == [i \in 1..Len(coords) |-> coords[i][1]]
Lats(coords) == [i \in 1..Len(coords) |-> coords[i][2]]
Range(q) == {q[i] : i \in 1..Len(q)}

LonRange_Swapped(coords) == SetMin(Range(Lons(coords))) - SetMax(Range(Lons(coords)))

LonRange(coords) == SetMax(Range(Lons(coords))) - SetMin(Range(Lons(coords)))

LatRange(coords) == SetMax(Range(Lats(coords))) - SetMin(Range(Lats(coords)))

(***************************************************************************)
(* process_api_fixed.py:262-263  np.radians(sum(lats) / len(lats)), in     *)
(* microradians: the latitudes are half degrees, pi/360 = 3.14159/360.     *)
(* The cosine is even, so the sign is dropped.                             *)
(***************************************************************************)
AvgLatMicroRad(coords) ==
    (Abs(SeqSum(Lats(coords))) * 314159) \div (36 * Len(coords))

(***************************************************************************)
(* process_api_fixed.py:263-266, 271  the area of the bounding box,        *)
(*   (lon_range * 111.32 * cos(avg_lat)) * (lat_range * 111.32) km2,       *)
(* in hundredths of a hectare: one square half degree at the equator is    *)
(* 111.32 * 111.32 / 4 km2 = 11132 * 11132 / 4 hundredths of a hectare.    *)
(***************************************************************************)
BBoxAreaCentiHa_NoHectares(coords) ==
    MulMillionth(LonRange(coords) * LatRange(coords)
                   * ((KmPerDegreeCenti * KmPerDegreeCenti) \div 400),
                 CosMicro(AvgLatMicroRad(coords)))

BBoxAreaCentiHa(coords) ==
    MulMillionth(LonRange(coords) * LatRange(coords)
                   * ((KmPerDegreeCenti * KmPerDegreeCenti) \div 4),
                 CosMicro(AvgLatMicroRad(coords)))

(***************************************************************************)
(* process_api_fixed.py:269-270  amount * water_fraction, where            *)
(*   water_fraction = water_pixels / total_pixels if total_pixels > 0      *)
(*                    else 0                                               *)
(* rounded to the nearest unit.  Without the guard numpy divides 0 by 0    *)
(* and gives nan, which is -1 here.                                        *)
(***************************************************************************)
TimesWaterFraction_NoGuard(amount, water, total) ==
    IF total # 0 THEN RoundDiv(amount * water, total) ELSE 0 - 1

TimesWaterFraction(amount, water, total) ==
    IF total > 0 THEN RoundDiv(amount * water, total) ELSE 0

(***************************************************************************)
(* process_api_fixed.py:235-236  np.sum(img_array == 1), img_array.size    *)
(***************************************************************************)
WaterPixels(grid) == Cardinality({i \in 1..Len(grid) : grid[i] = 1})
TotalPixels(grid) == Len(grid)

(***************************************************************************)
(* process_api_fixed.py:219-222  the first member named *.tif or *.tiff;   *)
(* 0 when there is none (tiff_member stays None).                          *)
(***************************************************************************)
IsTiffName(m) == m.ext = "tif" \/ m.ext = "tiff"

TiffMember(members) ==
    IF \E i \in 1..Len(members) : IsTiffName(members[i])
    THEN SetMin({i \in 1..Len(members) : IsTiffName(members[i])})
    ELSE 0

(***************************************************************************)
(* The dictionaries _process_response returns.  keys is the set of keys    *)
(* of the dictionary; error is the "error" value ("" when there is none).  *)
(***************************************************************************)
SuccessKeys == {"surface_area_hectares", "water_pixels", "total_pixels", "water_fraction"}

\* process_api_fixed.py:273-278
SuccessResult(area, water, total) ==
    [keys |-> SuccessKeys, surface_area |-> area, water_pixels |-> water,
     total_pixels |-> total,
     water_fraction |-> TimesWaterFraction(10000, water, total), error |-> ""]

\* process_api_fixed.py:283-289
ErrorResult(e) ==
    [keys |-> SuccessKeys \cup {"error"}, surface_area |-> 0, water_pixels |-> 0,
     total_pixels |-> 0, water_fraction |-> 0, error |-> e]

NoResult ==
    [keys |-> {}, surface_area |-> 0, water_pixels |-> 0, total_pixels |-> 0,
     water_fraction |-> 0, error |-> ""]

(***************************************************************************)
(* process_api_fixed.py:208-278  the body of the try block: the exception  *)
(* it raises ("" when none) and the dictionary it returns.                 *)
(***************************************************************************)
TryBody(content, geom) ==
    LET Fail(e) == [raised |-> e, value |-> NoResult]
        i == TiffMember(content.members)
    IN  IF ~content.tar THEN Fail("ReadError")                       \* line 216
        ELSE IF i = 0 THEN Fail("Exception")                          \* line 225
        ELSE IF content.members[i].data.type # "tiff"
             THEN Fail("UnidentifiedImageError")                      \* line 229
        ELSE IF geom.coordinates = <<>> THEN Fail("IndexError")       \* line 252
        ELSE IF geom.coordinates[1] = <<>> THEN Fail("ValueError")    \* line 258
        ELSE LET grid == content.members[i].data.grid
                 water == WaterPixels(grid)
                 total == TotalPixels(grid)
                 area == BBoxAreaCentiHa(geom.coordinates[1])
             IN  [raised |-> "",
                  value |-> SuccessResult(TimesWaterFraction(area, water, total),
                                          water, total)]

(***************************************************************************)
(* process_api_fixed.py:280  except Exception: every exception the body    *)
(* raises is an instance of Exception.                                     *)
(***************************************************************************)
Caught_ArchiveErrorsOnly(e) == e \in {"ReadError", "Exception"}

Caught(e) ==
    e \in {"ReadError", "Exception", "UnidentifiedImageError", "IndexError", "ValueError"}

(***************************************************************************)
(* process_api_fixed.py:192-289  _process_response                         *)
(***************************************************************************)
ProcessResponse(content, geom) ==
    LET b == TryBody(content, geom)
    IN  IF b.raised # "" /\ Caught(b.raised)
        THEN [raised |-> "", value |-> ErrorResult(b.raised)]
        ELSE b

(***************************************************************************)
(* process_api_fixed.py:28-105  calculate_water_surface, one call.         *)
(* returned.raised is the exception that left the call ("" when none),     *)
(* returned.keys the keys of the dictionary it returned.                   *)
(***************************************************************************)
ReturnKeys == {"waterbody_id", "surface_area_hectares", "timestamp", "date_range"}

NoReturn == [raised |-> "", keys |-> {}, surface_area |-> 0]

Raised(e) == [raised |-> e, keys |-> {}, surface_area |-> 0]

InitEst ==
    /\ epc = "idle"
    /\ geometry = NoGeometry
    /\ response_content = NoPayload
    /\ result = NoResult
    /\ returned = NoReturn

\* lines 49-65: the date range and the request payload for the geometry
CalculateWaterSurface(g) ==
    /\ epc = "idle"
    /\ geometry' = g
    /\ epc' = "token"
    /\ UNCHANGED <<response_content, result, returned>>
    /\ UNCHANGED authVars

\* line 68: token = self.auth.get_token()
CwsGetToken ==
    /\ epc = "token"
    /\ GetToken(1)
    /\ epc' = "auth"
    /\ UNCHANGED <<geometry, response_content, result, returned>>

CwsFetchToken ==
    /\ epc = "auth"
    /\ Post(1) \/ StoreToken(1) \/ StoreExpiry(1) \/ ReturnToken(1)
    /\ UNCHANGED estVars

\* line 68: get_token() returns the token, or its exception leaves the call
CwsTokenBack ==
    /\ epc = "auth"
    /\ Finish(1)
    /\ IF call[1].outcome \in {"cached", "fetched"}
       THEN /\ epc' = "post"
            /\ UNCHANGED returned
       ELSE /\ epc' = "raised"
            /\ returned' = Raised(call[1].outcome)
    /\ UNCHANGED <<geometry, response_content, result>>

\* lines 78-90: the POST to the imagery service; requests' own exception
\* is not caught here, a status other than 200 raises Exception
CwsPostFails ==
    /\ epc = "post"
    /\ \E e \in {"RequestException", "Exception"} : returned' = Raised(e)
    /\ epc' = "raised"
    /\ UNCHANGED <<geometry, response_content, result>>
    /\ UNCHANGED authVars

CwsPostOk ==
    /\ epc = "post"
    /\ \E c \in Payloads : response_content' = c
    /\ epc' = "process"
    /\ UNCHANGED <<geometry, result, returned>>
    /\ UNCHANGED authVars

\* line 93: result = self._process_response(response.content, geometry)
CwsProcess ==
    /\ epc = "process"
    /\ LET r == ProcessResponse(response_content, geometry)
       IN  IF r.raised = ""
           THEN /\ result' = r.value
                /\ epc' = "ret"
                /\ UNCHANGED returned
           ELSE /\ returned' = Raised(r.raised)
                /\ epc' = "raised"
                /\ UNCHANGED result
    /\ UNCHANGED <<geometry, response_content>>
    /\ UNCHANGED authVars

\* lines 97-105: the dictionary returned to the caller
CwsReturn ==
    /\ epc = "ret"
    /\ returned' = [raised |-> "", keys |-> ReturnKeys,
                    surface_area |-> result.surface_area]
    /\ epc' = "returned"
    /\ UNCHANGED <<geometry, response_content, result>>
    /\ UNCHANGED authVars

(***************************************************************************)
(* The analytics routes (src/api/routes/analytics.py).                     *)
(* A measurement is a document [timestamp, surface_area_hectares]; areas   *)
(* are whole hectares, timestamps are whole days.  Means and percentages   *)
(* are compared as exact fractions (both sides multiplied out); the values *)
(* an assessment carries are rounded as the code rounds them: areas and    *)
(* changes to hundredths of a hectare, percentages to hundredths of a      *)
(* percent.                                                                *)
(***************************************************************************)
Areas == {0, 7, 13, 17, 19, 21, 23, 49, 50, 51, 97, 100, 101, 103}
MonthsValues == {MinMonths, DefaultMonths, MaxMonths}

\* the areas of a series in the order of their timestamps, as hits that the
\* repository delivered oldest first ("asc") or newest first ("desc")
Hits(areas, order) ==
    [i \in 1..Len(areas) |->
        IF order = "asc"
        THEN [timestamp |-> i, surface_area_hectares |-> areas[i]]
        ELSE [timestamp |-> Len(areas) + 1 - i,
              surface_area_hectares |-> areas[Len(areas) + 1 - i]]]

AreaSeqs == UNION {[1..n -> Areas] : n \in 0..MaxPoints}
HitLists == {Hits(a, o) : a \in AreaSeqs, o \in {"asc", "desc"}}

\* a / b rounded to the nearest integer, for b > 0 and any sign of a
RoundSigned(a, b) == IF a < 0 THEN 0 - RoundDiv(0 - a, b) ELSE RoundDiv(a, b)

\* results.sort(key=lambda x: x['timestamp']): a stable sort by timestamp
RECURSIVE SortByTimestamp(_)
SortByTimestamp(r) ==
    IF Len(r) <= 1 THEN r
    ELSE LET m == CHOOSE i \in 1..Len(r) :
                     /\ \A j \in 1..Len(r) : r[i].timestamp <= r[j].timestamp
                     /\ \A j \in 1..(i - 1) : r[j].timestamp # r[i].timestamp
             rest == [k \in 1..(Len(r) - 1) |-> IF k < m THEN r[k] ELSE r[k + 1]]
         IN  <<r[m]>> \o SortByTimestamp(rest)

AreasOf(r) == [i \in 1..Len(r) |-> r[i].surface_area_hectares]

\* lines 101 and 221: not results or len(results) < 2
InsufficientData_OnlyEmpty(r) == Len(r) < 1

InsufficientData(r) == Len(r) < 2

\* lines 120-127: the risk cascade on percentage_change = num / den percent
RiskLevel_ExclusiveBoundaries(num, den) ==
    IF num > (0 - LowFloor) * den THEN "LOW"
    ELSE IF num > (0 - MediumFloor) * den THEN "MEDIUM"
    ELSE IF num > (0 - HighFloor) * den THEN "HIGH"
    ELSE "CRITICAL"

RiskLevel(num, den) ==
    IF num >= (0 - LowFloor) * den THEN "LOW"
    ELSE IF num >= (0 - MediumFloor) * den THEN "MEDIUM"
    ELSE IF num >= (0 - HighFloor) * den THEN "HIGH"
    ELSE "CRITICAL"

\* line 130: mid_point = len(results) // 2
MidPoint_RoundedUp(r) == (Len(r) + 1) \div 2

MidPoint(r) == Len(r) \div 2

\* max(len(x), 1)
AtLeastOne(n) == IF n < 1 THEN 1 ELSE n

\* lines 131-139: recent_avg against older_avg * 1.02 and * 0.98, with
\* recent_avg = recentSum / recentLen and older_avg = olderSum / olderLen
DroughtTrend(r) ==
    LET a == AreasOf(r)
        mid_point == MidPoint(r)
        older == SubSeq(a, 1, mid_point)
        recent == SubSeq(a, mid_point + 1, Len(a))
        olderLen == AtLeastOne(Len(older))
        recentLen == AtLeastOne(Len(recent))
        lhs == SeqSum(recent) * olderLen * 100
    IN  IF lhs > SeqSum(older) * recentLen * (100 + TrendBandPercent) THEN "INCREASING"
        ELSE IF lhs < SeqSum(older) * recentLen * (100 - TrendBandPercent) THEN "DECLINING"
        ELSE "STABLE"

\* lines 242-247: the direction of percentage_change = num / den percent
TrendDirection_InclusiveBoundaries(num, den) ==
    IF num >= DirectionBandPercent * den THEN "UP"
    ELSE IF num <= (0 - DirectionBandPercent) * den THEN "DOWN"
    ELSE "STABLE"

TrendDirection(num, den) ==
    IF num > DirectionBandPercent * den THEN "UP"
    ELSE IF num < (0 - DirectionBandPercent) * den THEN "DOWN"
    ELSE "STABLE"

NoAnalysis ==
    [kind |-> "None", current_area_hectares |-> 0, baseline_area_hectares |-> 0,
     start_area_hectares |-> 0, end_area_hectares |-> 0, total_change_hectares |-> 0,
     percentage_change |-> 0, average_monthly_change |-> 0, period_months |-> 0,
     risk_level |-> "", trend |-> "", trend_direction |-> "", last_updated |-> 0]

Raises(e) == [NoAnalysis EXCEPT !.kind = e]

\* lines 85-150: calculate_single_drought_risk on what the repository returned
CalculateSingleDroughtRisk(hits) ==
    IF InsufficientData(hits) THEN NoAnalysis
    ELSE LET r == SortByTimestamp(hits)
             n == Len(r)
             current_area == r[n].surface_area_hectares
             total == SeqSum(AreasOf(r))
             \* percentage_change = (current - total / n) / (total / n) * 100
             num == 100 * (current_area * n - total)
         IN  IF total = 0 THEN Raises("ZeroDivisionError")
             ELSE [NoAnalysis EXCEPT
                     !.kind = "DroughtRiskAnalysis",
                     !.current_area_hectares = 100 * current_area,
                     !.baseline_area_hectares = RoundDiv(100 * total, n),
                     !.percentage_change = RoundSigned(100 * num, total),
                     !.risk_level = RiskLevel(num, total),
                     !.trend = DroughtTrend(r),
                     !.last_updated = r[n].timestamp]

\* lines 227-259: the body of analyze_trend after the length check
TrendOf(hits, m) ==
    LET r == SortByTimestamp(hits)
        start_area == r[1].surface_area_hectares
        end_area == r[Len(r)].surface_area_hectares
        total_change == end_area - start_area
    IN  IF start_area = 0 THEN Raises("ZeroDivisionError")
        ELSE [NoAnalysis EXCEPT
                !.kind = "TrendAnalysis",
                !.period_months = m,
                !.start_area_hectares = 100 * start_area,
                !.end_area_hectares = 100 * end_area,
                !.total_change_hectares = 100 * total_change,
                !.percentage_change = RoundSigned(100 * 100 * total_change, start_area),
                !.average_monthly_change = RoundSigned(100 * total_change, m),
                !.trend_direction = TrendDirection(100 * total_change, start_area)]

\* the status a route answers with: 200 with the assessment, 404 for
\* insufficient data, 500 for any other exception (lines 175-186, 221-225,
\* 261-264)
StatusOf(a, insufficient) ==
    IF insufficient THEN NotFound
    ELSE IF a.kind \in {"DroughtRiskAnalysis", "TrendAnalysis"} THEN Ok
    ELSE ServerError

InitAna ==
    /\ endpoint = "none"
    /\ months = 0
    /\ results = <<>>
    /\ analysis = NoAnalysis
    /\ reply = 0

\* lines 159-186: GET /api/analytics/drought-risk/{waterbody_id}
AnalyzeDroughtRiskSingle ==
    /\ endpoint = "none"
    /\ \E hits \in HitLists :
          /\ results' = hits
          /\ analysis' = CalculateSingleDroughtRisk(hits)
    /\ endpoint' = "drought-risk"
    /\ months' = 0
    /\ reply' = StatusOf(analysis', analysis' = NoAnalysis)

\* lines 195-264: GET /api/analytics/trend/{waterbody_id}?months=m
AnalyzeTrend ==
    /\ endpoint = "none"
    /\ \E hits \in HitLists, m \in MonthsValues :
          /\ results' = hits
          /\ months' = m
          /\ analysis' = IF InsufficientData(hits) THEN NoAnalysis ELSE TrendOf(hits, m)
    /\ endpoint' = "trend"
    /\ reply' = StatusOf(analysis', InsufficientData(results'))

(***************************************************************************)
(* The ingestion run (src/ingestion/ingestion_service.py) with the client  *)
(* it calls (src/sentinel_hub/process_api.py) and the token manager above. *)
(* A configuration entry is [waterbody_id, has_name, has_geometry]: the    *)
(* k-th entry of the file has waterbody_id k, or Absent when the key is    *)
(* missing.                                                                *)
(***************************************************************************)
ConfigKinds == {"ok", "no_id", "no_geometry"}

Config(k, kind) ==
    [waterbody_id |-> IF kind = "no_id" THEN Absent ELSE k,
     has_name |-> TRUE,
     has_geometry |-> kind # "no_geometry"]

ConfigLists ==
    UNION {{[k \in 1..n |-> Config(k, kinds[k])] : kinds \in [1..n -> ConfigKinds]} :
             n \in 0..MaxConfigs}

\* lines 67-69: the three subscripts; a missing key raises KeyError
WellFormed_IdOnly(config) == config.waterbody_id # Absent

WellFormed(config) ==
    /\ config.waterbody_id # Absent
    /\ config.has_name
    /\ config.has_geometry

\* what the imagery service can do with one POST (process_api.py:61-83)
ImageryOutcomes == {"ok", "HTTPError", "RequestException"}

\* what the repository can do with one index request (client.py:84-88)
IndexOutcomes == {"ok", "ConnectionError"}

\* lines 103-108 and 111-117: the two dictionaries ingest_waterbody returns
ItemSuccess(config, doc_id) ==
    [waterbody_id |-> config.waterbody_id, status |-> "success",
     document_id |-> doc_id, error |-> ""]

ItemError(config, e) ==
    [waterbody_id |-> config.waterbody_id, status |-> "error",
     document_id |-> 0, error |-> e]

\* lines 89-97: the document written for a waterbody
Document(config) ==
    [waterbody_id |-> config.waterbody_id, surface_area_hectares |-> 0]

\* lines 145-154: the summary of a run
CountSuccessful(rs) == Cardinality({i \in 1..Len(rs) : rs[i].status = "success"})

Summary(rs) ==
    [total_waterbodies |-> Len(rs),
     successful |-> CountSuccessful(rs),
     failed |-> Len(rs) - CountSuccessful(rs),
     results |-> rs]

NoSummary == [total_waterbodies |-> 0, successful |-> 0, failed |-> 0, results |-> <<>>]

\* history: what the run asked of the outside world, in order; rejected marks
\* a credential exchange answered with 401, ok a request that succeeded
Event(op, item, rejected, ok) ==
    [op |-> op, item |-> item, rejected |-> rejected, ok |-> ok]

\* the geometry of a configured waterbody
ConfigGeometry == [coordinates |-> <<UnitAt45>>]

\* the rasters the imagery service returns to a run: two pixels of which
\* one is water, and one pixel of land
IngestRasters ==
    {[tar |-> TRUE, body |-> Garbage,
      members |-> <<[ext |-> "tif", data |-> [type |-> "tiff", grid |-> g]]>>] :
        g \in {<<1, 0>>, <<0>>}}

\* client.py:84-88: es.index(index, document) with no id: the store files
\* the document under a new id, next to the ones it holds
IndexWaterbodyStat_ReplaceSameWaterbody(docs, doc) ==
    IF \E i \in 1..Len(docs) : docs[i].waterbody_id = doc.waterbody_id
    THEN [i \in 1..Len(docs) |->
            IF docs[i].waterbody_id = doc.waterbody_id THEN doc ELSE docs[i]]
    ELSE Append(docs, doc)

IndexWaterbodyStat(docs, doc) == Append(docs, doc)

\* process_api.py:69: raise_for_status() lets only a 2xx answer through
ImageryOk_NoStatusCheck(o) == o # "RequestException"

ImageryOk(o) == o = "ok"

InitIng ==
    /\ ipc = "idle"
    /\ runs = 0
    /\ waterbodies = <<>>
    /\ position = 0
    /\ response_data = NoPayload
    /\ run_results = <<>>
    /\ documents = <<>>
    /\ summary = NoSummary
    /\ run_raised = ""
    /\ log = <<>>

\* lines 136: load_waterbody_configs (lines 31-50); a missing file raises
IngestAll ==
    /\ ipc = "idle"
    /\ runs' = runs + 1
    /\ \/ /\ \E configs \in ConfigLists : waterbodies' = configs
          /\ position' = 1
          /\ ipc' = "loop"
          /\ UNCHANGED run_raised
       \/ /\ run_raised' = "FileNotFoundError"
          /\ ipc' = "raised"
          /\ UNCHANGED <<waterbodies, position>>
    /\ UNCHANGED <<response_data, run_results, documents, summary, log>>
    /\ UNCHANGED authVars

\* scheduler.py:46-62: run_ingestion builds a new token manager and a new
\* service for the next run; the repository keeps its documents
RunIngestion ==
    /\ ipc \in {"returned", "raised"}
    /\ runs < MaxRuns
    /\ ipc' = "idle"
    /\ waterbodies' = <<>>
    /\ position' = 0
    /\ response_data' = NoPayload
    /\ run_results' = <<>>
    /\ summary' = NoSummary
    /\ run_raised' = ""
    /\ log' = <<>>
    /\ access_token' = None
    /\ token_expires_at' = None
    /\ expiry_of' = None
    /\ exchanges' = 0
    /\ prev' = NoPrev
    /\ UNCHANGED <<runs, documents, now, pc, call>>

\* the item is over with result r: results.append(result), next config
NextItem(r) ==
    /\ run_results' = Append(run_results, r)
    /\ position' = position + 1
    /\ ipc' = "loop"
    /\ UNCHANGED run_raised

\* line 110: except Exception as e
IngestCaught_RequestErrorsOnly(e) ==
    e \in {"Process API request failed", "NetworkError", "FetchError",
           "AuthenticationError"}

IngestCaught(e) == TRUE

\* an exception e inside the try block of ingest_waterbody (lines 79-117)
ItemFails(e) ==
    IF IngestCaught(e)
    THEN NextItem(ItemError(waterbodies[position], e))
    ELSE /\ ipc' = "raised"
         /\ run_raised' = e
         /\ UNCHANGED <<position, run_results>>

\* lines 140-141 and 67-69: the next configuration enters ingest_waterbody,
\* which reads its three keys before its try block
IngestWaterbody ==
    /\ ipc = "loop"
    /\ position <= Len(waterbodies)
    /\ IF WellFormed(waterbodies[position])
       THEN /\ ipc' = "call_auth"
            /\ UNCHANGED run_raised
       ELSE /\ ipc' = "raised"
            /\ run_raised' = "KeyError"
    /\ UNCHANGED <<runs, waterbodies, position, response_data, run_results, documents,
                   summary, log>>
    /\ UNCHANGED authVars

\* process_api.py:54: self.auth.get_token()
IngGetToken ==
    /\ ipc = "call_auth"
    /\ GetToken(1)
    /\ ipc' = "auth"
    /\ log' = Append(log, Event("token", position, FALSE, TRUE))
    /\ UNCHANGED <<runs, waterbodies, position, response_data, run_results, documents,
                   summary, run_raised>>

\* auth.py:74: the credential exchange of this item
IngExchange ==
    /\ ipc = "auth"
    /\ Post(1)
    /\ log' = Append(log, Event("exchange", position,
                                /\ call'[1].resp.kind = "http"
                                /\ call'[1].resp.status = Unauthorized,
                                call'[1].resp.kind = "ok"))
    /\ UNCHANGED <<ipc, runs, waterbodies, position, response_data, run_results,
                   documents, summary, run_raised>>

IngFetchToken ==
    /\ ipc = "auth"
    /\ StoreToken(1) \/ StoreExpiry(1) \/ ReturnToken(1)
    /\ UNCHANGED <<ipc, runs, waterbodies, position, response_data, run_results,
                   documents, summary, run_raised, log>>

\* get_token() returns, or its exception reaches the except clause of
\* ingest_waterbody (lines 110-117)
IngTokenBack ==
    /\ ipc = "auth"
    /\ Finish(1)
    /\ IF call[1].outcome \in {"cached", "fetched"}
       THEN /\ ipc' = "imagery"
            /\ UNCHANGED <<position, run_results, run_raised>>
       ELSE ItemFails(call[1].outcome)
    /\ UNCHANGED <<runs, waterbodies, response_data, documents, summary, log>>

\* process_api.py:59-83: the POST to the imagery service; a 2xx answer
\* carries a raster, which _parse_response hands back as raw_response
IngImagery ==
    /\ ipc = "imagery"
    /\ \E o \in ImageryOutcomes :
         /\ log' = Append(log, Event("imagery", position, FALSE, o = "ok"))
         /\ IF ImageryOk(o)
            THEN /\ ipc' = "index"
                 /\ \E content \in IngestRasters : response_data' = content
                 /\ UNCHANGED <<position, run_results, run_raised>>
            ELSE /\ ItemFails("Process API request failed")
                 /\ UNCHANGED response_data
    /\ UNCHANGED <<runs, waterbodies, documents, summary>>
    /\ UNCHANGED authVars

\* lines 89-108: the document is written to the repository; the call
\* returns and its local result is gone
IngIndex ==
    /\ ipc = "index"
    /\ \E o \in IndexOutcomes :
         /\ log' = Append(log, Event("index", position, FALSE, o = "ok"))
         /\ IF o = "ok"
            THEN /\ documents' = IndexWaterbodyStat(documents, Document(waterbodies[position]))
                 /\ NextItem(ItemSuccess(waterbodies[position], Len(documents) + 1))
            ELSE /\ ItemFails(o)
                 /\ UNCHANGED documents
    /\ response_data' = NoPayload
    /\ UNCHANGED <<runs, waterbodies, summary>>
    /\ UNCHANGED authVars

\* lines 144-164: the loop is over
IngSummary ==
    /\ ipc = "loop"
    /\ position > Len(waterbodies)
    /\ summary' = Summary(run_results)
    /\ ipc' = "returned"
    /\ UNCHANGED <<runs, waterbodies, position, response_data, run_results, documents,
                   run_raised, log>>
    /\ UNCHANGED authVars

(***************************************************************************)
(* The request payload (src/sentinel_hub/process_api.py:85-134).           *)
(* A datetime is [year, month, day, hour, minute, second]; a string is the *)
(* sequence of its characters.                                             *)
(***************************************************************************)
CalendarDates == {<<2024, 1, 1>>, <<2024, 1, 31>>, <<2024, 3, 15>>, <<2024, 3, 20>>,
                  <<2025, 12, 31>>}
ClockTimes == {<<0, 0, 0>>, <<10, 30, 45>>, <<18, 45, 30>>, <<23, 59, 59>>}

Datetimes ==
    {[year |-> d[1], month |-> d[2], day |-> d[3],
      hour |-> t[1], minute |-> t[2], second |-> t[3]] :
        d \in CalendarDates, t \in ClockTimes}

PayloadGeometries == {NoGeometry, [coordinates |-> <<AralBox>>],
                      [coordinates |-> <<EquatorBox>>]}

DigitChars == <<"0", "1", "2", "3", "4", "5", "6", "7", "8", "9">>

\* a number in decimal with leading zeros, as %Y (4 digits) and %m, %d, %H,
\* %M, %S (2 digits) print it
Digit(d) == DigitChars[d + 1]
Pad2(n) == <<Digit((n \div 10) % 10), Digit(n % 10)>>
Pad4(n) == <<Digit((n \div 1000) % 10), Digit((n \div 100) % 10)>> \o Pad2(n)

\* strftime("%Y-%m-%d")
DatePart(dt) == Pad4(dt.year) \o <<"-">> \o Pad2(dt.month) \o <<"-">> \o Pad2(dt.day)

\* strftime("%H:%M:%S")
ClockPart(dt) == Pad2(dt.hour) \o <<":">> \o Pad2(dt.minute) \o <<":">> \o Pad2(dt.second)

\* line 95: start_date.strftime("%Y-%m-%dT00:00:00Z")
TimeFrom_KeepsClock(dt) == DatePart(dt) \o <<"T">> \o ClockPart(dt) \o <<"Z">>

TimeFrom(dt) ==
    DatePart(dt) \o <<"T", "0", "0", ":", "0", "0", ":", "0", "0", "Z">>

\* line 96: end_date.strftime("%Y-%m-%dT23:59:59Z")
TimeTo(dt) ==
    DatePart(dt) \o <<"T", "2", "3", ":", "5", "9", ":", "5", "9", "Z">>

\* lines 98-132: the payload, as far as the claims read it
BuildPayloadOf(g, start_date, end_date) ==
    [geometry |-> g, time_from |-> TimeFrom(start_date), time_to |-> TimeTo(end_date)]

NoPayloadBuilt == [geometry |-> NoGeometry, time_from |-> <<>>, time_to |-> <<>>]

NoTimeRange == <<>>

InitPay ==
    /\ time_range = NoTimeRange
    /\ payload_geometry = NoGeometry
    /\ payload = NoPayloadBuilt

\* lines 85-134: _build_payload(geometry, time_range)
BuildPayload ==
    /\ time_range = NoTimeRange
    /\ \E g \in PayloadGeometries, start_date \in Datetimes, end_date \in Datetimes :
          /\ time_range' = <<start_date, end_date>>
          /\ payload_geometry' = g
          /\ payload' = BuildPayloadOf(g, start_date, end_date)

(***************************************************************************)
(* The per-pixel evaluation scripts sent to the imagery service:           *)
(* "process_api" is evaluatePixel of src/sentinel_hub/process_api.py       *)
(* (lines 161-175), "process_api_fixed" that of process_api_fixed.py       *)
(* (lines 142-155).  Band values are digital numbers (whole, >= 0).  The   *)
(* index is kept as the fraction num / den in ten-thousandths; a JavaScript *)
(* division with den = 0 and num = 0 gives NaN, and every comparison with   *)
(* NaN is false.                                                           *)
(***************************************************************************)
Scripts == {"process_api", "process_api_fixed"}
BandValues == {0, 1, 2, 3, 1500, 3000}
SclValues == 0..11
Samples == [B03 : BandValues, B08 : BandValues, SCL : SclValues]

\* process_api.py:167, process_api_fixed.py:145: the cloud test on SCL
IsCloud(smp) == smp.SCL \in {CloudShadow, CloudMedium, CloudHigh}

\* the constant added to the denominator, in ten-thousandths
EpsilonOf(scr) ==
    IF scr = "process_api" THEN EpsilonTenThousandths ELSE 0

\* the threshold the index is compared with, in tenths
ThresholdOf(scr) ==
    IF scr = "process_api" THEN ThresholdTenths ELSE FixedThresholdTenths

\* process_api.py:163, process_api_fixed.py:150: let ndwi = ...
Ndwi(scr, smp) ==
    [num |-> 10000 * (smp.B03 - smp.B08),
     den |-> 10000 * (smp.B03 + smp.B08) + EpsilonOf(scr)]

IsNaN(index) == index.den = 0 /\ index.num = 0

\* ndwi > threshold
Exceeds(index, tenths) ==
    /\ ~IsNaN(index)
    /\ IF index.den = 0 THEN index.num > 0
       ELSE 10 * index.num > tenths * index.den

\* evaluatePixel(smp)
EvaluatePixelOf(scr, smp) ==
    IF IsCloud(smp) THEN 0
    ELSE IF Exceeds(Ndwi(scr, smp), ThresholdOf(scr)) THEN 1
    ELSE 0

\* whether evaluatePixel performs its division with a zero denominator: the
\* first scr divides before the cloud test, the second after it
DividesByZero(scr, smp) ==
    /\ Ndwi(scr, smp).den = 0
    /\ scr = "process_api" \/ ~IsCloud(smp)

NoSample == [B03 |-> 0, B08 |-> 0, SCL |-> 0 - 1]

InitPix ==
    /\ script = "none"
    /\ sample = NoSample
    /\ pixel = 0
    /\ zero_division = FALSE

\* the imagery service evaluates one pixel with one of the two scripts
EvaluatePixel ==
    /\ script = "none"
    /\ \E sc \in Scripts, s \in Samples :
          /\ script' = sc
          /\ sample' = s
          /\ pixel' = EvaluatePixelOf(sc, s)
          /\ zero_division' = DividesByZero(sc, s)

(***************************************************************************)
(* The repository client (src/elasticsearch_client/client.py): its         *)
(* construction, which probes the store and then checks or creates the     *)
(* index, and the writes made through it afterwards.                       *)
(***************************************************************************)
MaxIndexed == 2         \* writes made through a constructed client

MaxRetries == 3         \* client.py:41  max_retries = 3

\* es.ping(): True, False, or an exception
PingOutcomes == {"true", "false", "raises"}

\* es.indices.exists(): True, False, or an exception
ExistsOutcomes == {"true", "false", "raises"}

\* es.indices.create(): an acknowledgement or an exception
CreateOutcomes == {"ok", "raises"}

IndexCall(op, outcome) == [op |-> op, outcome |-> outcome]

\* lines 31-38: host and the Elasticsearch object are set, the loop begins
InitEs ==
    /\ es_pc = "probing"
    /\ attempt = 0
    /\ pings = <<>>
    /\ es_error = ""
    /\ index_calls = <<>>
    /\ es_indexed = 0

\* line 42: for attempt in range(max_retries): the next round, or the end of
\* the loop, after which line 55 calls _ensure_index_exists
NextAttempt ==
    /\ attempt' = attempt + 1
    /\ es_pc' = IF attempt + 1 < MaxRetries THEN "probing" ELSE "ensure_index"
    /\ UNCHANGED es_error

\* lines 43-52: one round of the probe
EsPing ==
    /\ es_pc = "probing"
    /\ \E o \in PingOutcomes :
         /\ pings' = Append(pings, o)
         /\ CASE o = "true" ->                                  \* lines 44-46: break
                    /\ es_pc' = "ensure_index"
                    /\ UNCHANGED <<attempt, es_error>>
              [] o = "false" -> NextAttempt                     \* line 44: no else
              [] OTHER ->                                       \* lines 47-52
                    IF attempt = MaxRetries - 1
                    THEN /\ es_pc' = "raised"
                         /\ es_error' = "Cannot connect"
                         /\ UNCHANGED attempt
                    ELSE NextAttempt
    /\ UNCHANGED <<index_calls, es_indexed>>

\* lines 59-60 and 77-80: es.indices.exists; an exception is printed
EsEnsureIndexExists ==
    /\ es_pc = "ensure_index"
    /\ \E o \in ExistsOutcomes :
         /\ index_calls' = Append(index_calls, IndexCall("exists", o))
         /\ es_pc' = IF o = "false" THEN "create_index" ELSE "ready"
    /\ UNCHANGED <<attempt, pings, es_error, es_indexed>>

\* lines 75-80: es.indices.create; an exception is printed
EsCreateIndex ==
    /\ es_pc = "create_index"
    /\ \E o \in CreateOutcomes :
         index_calls' = Append(index_calls, IndexCall("create", o))
    /\ es_pc' = "ready"
    /\ UNCHANGED <<attempt, pings, es_error, es_indexed>>

\* lines 82-88: a write through the constructed client
EsIndexWaterbodyStat ==
    /\ es_pc = "ready"
    /\ es_indexed < MaxIndexed
    /\ es_indexed' = es_indexed + 1
    /\ UNCHANGED <<es_pc, attempt, pings, es_error, index_calls>>

(***************************************************************************)
(* The three drought-risk list routes: analyze_drought_risk of             *)
(* api/routes/analytics.py, drought_risk of api/main.py and drought_risk   *)
(* of api/api_min.py, over the series the repository holds.  store[w] is   *)
(* the series of waterbody w: its areas in ascending order of timestamps.  *)
(***************************************************************************)
MaxWaterbodies == 2     \* waterbodies the repository holds

StoredSeries ==
    {<<>>, <<100>>, <<0, 0>>, <<100, 50>>, <<100, 80>>, <<80, 50>>, <<50, 100>>,
     <<100, 100, 50>>}

Stores == UNION {[1..n -> StoredSeries] : n \in 0..MaxWaterbodies}

Implementations == {"routes", "main", "api_min"}

InitLst ==
    /\ stored = FALSE
    /\ store = <<>>
    /\ listed = {}
    /\ listing = [impl \in Implementations |-> <<>>]

\* the key of the final sort: {"CRITICAL": 0, "HIGH": 1, "MEDIUM": 2, "LOW": 3}
RiskOrder(level) ==
    CASE level = "CRITICAL" -> 0
      [] level = "HIGH" -> 1
      [] level = "MEDIUM" -> 2
      [] level = "LOW" -> 3
      [] OTHER -> 999

\* sorted(analyses, key=...) and analyses.sort(key=...): a stable sort
RECURSIVE SortByRiskOrder(_)
SortByRiskOrder(as) ==
    IF Len(as) <= 1 THEN as
    ELSE LET m == CHOOSE i \in 1..Len(as) :
                     /\ \A j \in 1..Len(as) :
                           RiskOrder(as[i].risk_level) <= RiskOrder(as[j].risk_level)
                     /\ \A j \in 1..(i - 1) :
                           RiskOrder(as[j].risk_level) # RiskOrder(as[i].risk_level)
             rest == [k \in 1..(Len(as) - 1) |-> IF k < m THEN as[k] ELSE as[k + 1]]
         IN  <<as[m]>> \o SortByRiskOrder(rest)

Assessment(wid, current, baseline, change, risk, trend) ==
    [waterbody_id |-> wid, current_area_hectares |-> current,
     baseline_area_hectares |-> baseline, percentage_change |-> change,
     risk_level |-> risk, trend |-> trend]

WaterbodyIds(st) == [w \in 1..Len(st) |-> w]

\* routes/analytics.py:66-79: each waterbody in its own try block; None and
\* an exception both skip the waterbody
AnalyzeDroughtRisk(st) ==
    LET Of(w) == CalculateSingleDroughtRisk(Hits(st[w], "asc"))
        Kept(w) == Of(w).kind = "DroughtRiskAnalysis"
        kept == SelectSeq(WaterbodyIds(st), Kept)
    IN  SortByRiskOrder(
            [i \in 1..Len(kept) |->
                LET a == Of(kept[i])
                IN  Assessment(kept[i], a.current_area_hectares, a.baseline_area_hectares,
                               a.percentage_change, a.risk_level, a.trend)])

\* main.py:245-278: the assessment of one waterbody from its areas
MainAssessment(wid, areas) ==
    LET n == Len(areas)
        current == areas[n]
        total == SeqSum(areas)
        \* change = (current - total / n) / (total / n) * 100 = num / total
        num == 100 * (current * n - total)
        risk == IF num >= (0 - 5) * total THEN "LOW"
                ELSE IF num >= (0 - 15) * total THEN "MEDIUM"
                ELSE IF num >= (0 - 30) * total THEN "HIGH"
                ELSE "CRITICAL"
        mid == n \div 2
        recent == SubSeq(areas, mid + 1, n)
        older == SubSeq(areas, 1, mid)
        lhs == SeqSum(recent) * Len(older) * 100
        trend == IF lhs > SeqSum(older) * Len(recent) * 102 THEN "INCREASING"
                 ELSE IF lhs < SeqSum(older) * Len(recent) * 98 THEN "DECLINING"
                 ELSE "STABLE"
    IN  Assessment(wid, 100 * current, RoundDiv(100 * total, n),
                   RoundSigned(100 * num, total), risk, trend)

\* main.py:229-283: one try block around the whole loop; series of fewer
\* than 2 points are skipped; any exception answers with the empty list
DroughtRiskMain(st) ==
    LET Counted(w) == Len(st[w]) >= 2
        kept == SelectSeq(WaterbodyIds(st), Counted)
    IN  IF \E i \in 1..Len(kept) : SeqSum(st[kept[i]]) = 0      \* ZeroDivisionError
        THEN <<>>
        ELSE SortByRiskOrder([i \in 1..Len(kept) |-> MainAssessment(kept[i], st[kept[i]])])

\* api_min.py:207-240: the assessment of one waterbody from its areas
MinAssessment(wid, areas) ==
    LET n == Len(areas)
        current == areas[n]
        total == SeqSum(areas)
        num == 100 * (current * n - total)
        risk == IF num >= (0 - 5) * total THEN "LOW"
                ELSE IF num >= (0 - 15) * total THEN "MEDIUM"
                ELSE IF num >= (0 - 30) * total THEN "HIGH"
                ELSE "CRITICAL"
        mid == n \div 2
        recent == SubSeq(areas, mid + 1, n)
        older == SubSeq(areas, 1, mid)
        lhs == SeqSum(recent) * Len(older) * 100
        trend == IF lhs > SeqSum(older) * Len(recent) * 102 THEN "INCREASING"
                 ELSE IF lhs < SeqSum(older) * Len(recent) * 98 THEN "DECLINING"
                 ELSE "STABLE"
    IN  Assessment(wid, 100 * current, RoundDiv(100 * total, n),
                   RoundSigned(100 * num, total), risk, trend)

\* api_min.py:177-244: as in main.py, one try block around the whole loop
DroughtRiskMin(st) ==
    LET Counted(w) == Len(st[w]) >= 2
        kept == SelectSeq(WaterbodyIds(st), Counted)
    IN  IF \E i \in 1..Len(kept) : SeqSum(st[kept[i]]) = 0      \* ZeroDivisionError
        THEN <<>>
        ELSE SortByRiskOrder([i \in 1..Len(kept) |-> MinAssessment(kept[i], st[kept[i]])])

\* the ingestion runs have filled the repository
Stored ==
    /\ ~stored
    /\ stored' = TRUE
    /\ \E st \in Stores : store' = st
    /\ UNCHANGED <<listed, listing>>

Lists(impl, answer) ==
    /\ stored
    /\ impl \notin listed
    /\ listed' = listed \cup {impl}
    /\ listing' = [listing EXCEPT ![impl] = answer]
    /\ UNCHANGED <<stored, store>>

\* GET /api/analytics/drought-risk of each of the three applications
ListRoutes == Lists("routes", AnalyzeDroughtRisk(store))

ListMain == Lists("main", DroughtRiskMain(store))

ListMin == Lists("api_min", DroughtRiskMin(store))

(***************************************************************************)
(* The two analytics routes on series whose timestamps may repeat: the     *)
(* repository enforces no uniqueness, and its sort by timestamp leaves the *)
(* order of the points that share one to the store.                        *)
(***************************************************************************)
Timestamps == {1, 2}
RepeatedAreas == {7, 13, 100}

Points == [timestamp : Timestamps, surface_area_hectares : RepeatedAreas]

DeliveredLists == UNION {[1..n -> Points] : n \in 0..MaxPoints}

InitOrd ==
    /\ delivered_to = "none"
    /\ delivered = <<>>
    /\ delivered_months = 0
    /\ assessment = NoAnalysis

\* what a route computes from the series r it was delivered
AssessmentOf(route, r, m) ==
    IF route = "trend"
    THEN IF InsufficientData(r) THEN NoAnalysis ELSE TrendOf(r, m)
    ELSE CalculateSingleDroughtRisk(r)

\* lines 85-150: calculate_single_drought_risk on a delivered series
AssessDrought ==
    /\ delivered_to = "none"
    /\ \E r \in DeliveredLists :
          /\ delivered' = r
          /\ assessment' = AssessmentOf("drought-risk", r, 0)
    /\ delivered_to' = "drought-risk"
    /\ delivered_months' = 0

\* lines 195-264: analyze_trend on a delivered series
AssessTrend ==
    /\ delivered_to = "none"
    /\ \E r \in DeliveredLists, m \in MonthsValues :
          /\ delivered' = r
          /\ delivered_months' = m
          /\ assessment' = AssessmentOf("trend", r, m)
    /\ delivered_to' = "trend"

(***************************************************************************)
(* Specifications.                                                         *)
(*   Spec     one caller at a time uses the token manager, as in the       *)
(*            sequential ingestion loop, while the clock runs              *)
(*   SpecConc every caller of Threads takes its next step at any moment    *)
(*            (the code holds no lock)                                     *)
(*   SpecEst  one call of calculate_water_surface on a new token manager   *)
(*   SpecIng  the runs of ingest_all the scheduler starts, one after       *)
(*            another, over a configuration file                           *)
(*   SpecPay  one call of _build_payload                                   *)
(*   SpecPix  one evaluation of a pixel by one of the two evalscripts      *)
(*   SpecAna  one request to one of the two analytics routes, on any       *)
(*            series the repository can return                             *)
(*   SpecEs   one construction of the repository client, and the writes    *)
(*            made through it                                              *)
(*   SpecLst  one request to the drought-risk list route of each of the    *)
(*            three applications, over the same repository                 *)
(*   SpecOrd  one request to one of the two analytics routes, on a series  *)
(*            whose timestamps may repeat, delivered in any order          *)
(***************************************************************************)
Init == InitAuth /\ InitEst /\ InitAna /\ InitIng /\ InitPay /\ InitPix /\ InitEs /\ InitLst /\ InitOrd

Next ==
    \/ Tick /\ UNCHANGED <<estVars, restVars>>
    \/ GetToken(1) /\ UNCHANGED <<estVars, restVars>>
    \/ Post(1) /\ UNCHANGED <<estVars, restVars>>
    \/ StoreToken(1) /\ UNCHANGED <<estVars, restVars>>
    \/ StoreExpiry(1) /\ UNCHANGED <<estVars, restVars>>
    \/ ReturnToken(1) /\ UNCHANGED <<estVars, restVars>>
    \/ Finish(1) /\ UNCHANGED <<estVars, restVars>>

Spec == Init /\ [][Next]_vars

TickConc ==
    /\ now \div TickSeconds < MaxConcTicks
    /\ Tick

ConcGetToken(t) ==
    /\ \/ IsTokenValid(access_token, token_expires_at, now)
       \/ exchanges + Cardinality({u \in Threads : pc[u] = "post"}) < MaxConcExchanges
    /\ GetToken(t)

NextConc ==
    \/ TickConc /\ UNCHANGED <<estVars, restVars>>
    \/ \E t \in Threads :
         \/ ConcGetToken(t) /\ UNCHANGED <<estVars, restVars>>
         \/ Post(t) /\ UNCHANGED <<estVars, restVars>>
         \/ StoreToken(t) /\ UNCHANGED <<estVars, restVars>>
         \/ StoreExpiry(t) /\ UNCHANGED <<estVars, restVars>>
         \/ ReturnToken(t) /\ UNCHANGED <<estVars, restVars>>
         \/ Finish(t) /\ UNCHANGED <<estVars, restVars>>

SpecConc == Init /\ [][NextConc]_vars

NextEst ==
    \/ \E g \in Geometries : CalculateWaterSurface(g) /\ UNCHANGED restVars
    \/ CwsGetToken /\ UNCHANGED restVars
    \/ CwsFetchToken /\ UNCHANGED restVars
    \/ CwsTokenBack /\ UNCHANGED restVars
    \/ CwsPostFails /\ UNCHANGED restVars
    \/ CwsPostOk /\ UNCHANGED restVars
    \/ CwsProcess /\ UNCHANGED restVars
    \/ CwsReturn /\ UNCHANGED restVars

SpecEst == Init /\ [][NextEst]_vars

NextAna ==
    \/ AnalyzeDroughtRiskSingle /\ UNCHANGED <<authVars, estVars, ingVars, payVars, pixVars, esVars, lstVars, ordVars>>
    \/ AnalyzeTrend /\ UNCHANGED <<authVars, estVars, ingVars, payVars, pixVars, esVars, lstVars, ordVars>>

SpecAna == Init /\ [][NextAna]_vars

NextIng ==
    \/ IngestAll /\ UNCHANGED <<estVars, anaVars, payVars, pixVars, esVars, lstVars, ordVars>>
    \/ RunIngestion /\ UNCHANGED <<estVars, anaVars, payVars, pixVars, esVars, lstVars, ordVars>>
    \/ IngestWaterbody /\ UNCHANGED <<estVars, anaVars, payVars, pixVars, esVars, lstVars, ordVars>>
    \/ IngGetToken /\ UNCHANGED <<estVars, anaVars, payVars, pixVars, esVars, lstVars, ordVars>>
    \/ IngExchange /\ UNCHANGED <<estVars, anaVars, payVars, pixVars, esVars, lstVars, ordVars>>
    \/ IngFetchToken /\ UNCHANGED <<estVars, anaVars, payVars, pixVars, esVars, lstVars, ordVars>>
    \/ IngTokenBack /\ UNCHANGED <<estVars, anaVars, payVars, pixVars, esVars, lstVars, ordVars>>
    \/ IngImagery /\ UNCHANGED <<estVars, anaVars, payVars, pixVars, esVars, lstVars, ordVars>>
    \/ IngIndex /\ UNCHANGED <<estVars, anaVars, payVars, pixVars, esVars, lstVars, ordVars>>
    \/ IngSummary /\ UNCHANGED <<estVars, anaVars, payVars, pixVars, esVars, lstVars, ordVars>>

SpecIng == Init /\ [][NextIng]_vars

NextPay == BuildPayload /\ UNCHANGED <<authVars, estVars, anaVars, ingVars, pixVars, esVars, lstVars, ordVars>>

SpecPay == Init /\ [][NextPay]_vars

NextPix == EvaluatePixel /\ UNCHANGED <<authVars, estVars, anaVars, ingVars, payVars, esVars, lstVars, ordVars>>

SpecPix == Init /\ [][NextPix]_vars

NextEs ==
    \/ EsPing /\ UNCHANGED <<authVars, estVars, anaVars, ingVars, payVars, pixVars, lstVars, ordVars>>
    \/ EsEnsureIndexExists /\ UNCHANGED <<authVars, estVars, anaVars, ingVars, payVars, pixVars, lstVars, ordVars>>
    \/ EsCreateIndex /\ UNCHANGED <<authVars, estVars, anaVars, ingVars, payVars, pixVars, lstVars, ordVars>>
    \/ EsIndexWaterbodyStat /\ UNCHANGED <<authVars, estVars, anaVars, ingVars, payVars, pixVars, lstVars, ordVars>>

SpecEs == Init /\ [][NextEs]_vars

NextLst ==
    \/ Stored /\ UNCHANGED <<authVars, estVars, anaVars, ingVars, payVars, pixVars, esVars, ordVars>>
    \/ ListRoutes /\ UNCHANGED <<authVars, estVars, anaVars, ingVars, payVars, pixVars, esVars, ordVars>>
    \/ ListMain /\ UNCHANGED <<authVars, estVars, anaVars, ingVars, payVars, pixVars, esVars, ordVars>>
    \/ ListMin /\ UNCHANGED <<authVars, estVars, anaVars, ingVars, payVars, pixVars, esVars, ordVars>>

SpecLst == Init /\ [][NextLst]_vars

NextOrd ==
    \/ AssessDrought /\ UNCHANGED <<authVars, estVars, anaVars, ingVars, payVars, pixVars, esVars, lstVars>>
    \/ AssessTrend /\ UNCHANGED <<authVars, estVars, anaVars, ingVars, payVars, pixVars, esVars, lstVars>>

SpecOrd == Init /\ [][NextOrd]_vars

(***************************************************************************)
(* Claims about the token manager.                                         *)
(***************************************************************************)

\* A call is settled when get_token() has its answer and the caller has not
\* yet gone on.
Settled(t) == pc[t] = "done"

(* C1 as stated: of two consecutive get_token() calls, the first of which  *)
(* fetched a token, the second, made before the time of expiry the first   *)
(* one cached, issues no exchange (one exchange for the two calls) and     *)
(* returns the same token.                                                 *)
C1_OneExchangeWithinLifetime ==
    (/\ Settled(1)
     /\ prev.outcome = "fetched"
     /\ call[1].startNow < call[1].startExp)
    => /\ prev.posts + call[1].posts = 1
       /\ call[1].ret = prev.ret

(* C1, amended: the second of two consecutive get_token() calls, made      *)
(* earlier than 5 minutes before the cached time of expiry, issues no      *)
(* exchange and returns the first call's token; a call made on a cached    *)
(* token at or after that moment (in the last 5 minutes of the lifetime,   *)
(* or after expiry) issues exactly one new exchange.                       *)
C1_OneExchangeBeforeBuffer ==
    Settled(1) =>
        /\ (prev.outcome = "fetched" /\ call[1].startNow < call[1].startExp - 300)
              => /\ prev.posts + call[1].posts = 1
                 /\ call[1].ret = prev.ret
        /\ (call[1].startTok # None /\ call[1].startExp # None
              /\ call[1].startNow >= call[1].startExp - 300)
              => call[1].posts = 1

C1_Witness ==
    /\ Settled(1)
    /\ prev.outcome = "fetched"
    /\ call[1].outcome = "cached"
    /\ call[1].ret = prev.ret
    /\ call[1].startNow > TickSeconds

(* C2: get_token() answers from the cache, with no exchange, exactly when  *)
(* a token and an expiry are cached and now < expires_at - 5 minutes; in   *)
(* every other state it issues one exchange, and when the exchange         *)
(* delivers a token it caches it with expires_at = now + the reported      *)
(* lifetime, 600 seconds when none is reported.                            *)
C2_CachedExactlyWhenValid ==
    Settled(1) =>
        LET c == call[1]
            valid == /\ c.startTok # None
                     /\ c.startExp # None
                     /\ c.startNow < c.startExp - 5 * 60
            wellFormed == /\ c.resp.kind = "ok"
                          /\ c.resp.has_token
                          /\ c.resp.expires_in # NotANumber
        IN  /\ valid <=> c.posts = 0
            /\ valid => c.outcome = "cached" /\ c.ret = c.startTok
            /\ ~valid => c.posts = 1
            /\ (~valid /\ wellFormed) => c.outcome = "fetched"
            /\ c.outcome = "fetched" =>
                  /\ access_token = c.newTok
                  /\ c.ret = c.newTok
                  /\ token_expires_at =
                        c.storedAt + (IF c.resp.expires_in = Absent
                                      THEN 600 ELSE c.resp.expires_in)

C2_Witness ==
    /\ Settled(1)
    /\ call[1].outcome = "fetched"
    /\ call[1].resp.expires_in = Absent
    /\ call[1].startTok # None
    /\ call[1].startNow >= call[1].startExp - 5 * 60
    /\ call[1].startNow < call[1].startExp

(* C3: when several callers use one token manager, the check and the      *)
(* refresh of one caller are not interleaved with those of another:        *)
(*  - two calls in progress that found the same cached token invalid do    *)
(*    not both issue an exchange that delivers a token (the second caller  *)
(*    would have found the first one's token),                             *)
(*  - no caller checks a token paired with the expiry of another exchange, *)
(*  - a caller that fetched a token is given the token of its own          *)
(*    exchange.                                                            *)
C3_RefreshIsSerialized ==
    /\ \A t, u \in Threads :
          (/\ t # u
           /\ pc[t] # "idle" /\ pc[u] # "idle"
           /\ call[t].posts = 1 /\ call[u].posts = 1
           /\ call[t].resp.has_token /\ call[u].resp.has_token)
          => call[t].startTok # call[u].startTok
    /\ \A t \in Threads : Settled(t) => ~call[t].sawMixed
    /\ \A t \in Threads :
          (Settled(t) /\ call[t].outcome = "fetched") => call[t].ret = call[t].newTok

(* C4: a get_token() call that needs an exchange raises the authentication *)
(* error when the identity service answers 401 and the network error when  *)
(* the transport fails; either way it has issued exactly one POST and      *)
(* returns no token.                                                       *)
C4_FailuresAreNotRetried ==
    Settled(1) =>
        LET c == call[1]
        IN  /\ (c.resp.kind = "http" /\ c.resp.status = 401)
                  => c.outcome = "AuthenticationError" /\ c.posts = 1 /\ c.ret = None
            /\ c.resp.kind = "transport"
                  => c.outcome = "NetworkError" /\ c.posts = 1 /\ c.ret = None

C4_Witness ==
    /\ Settled(1)
    /\ call[1].resp.kind = "http"
    /\ call[1].resp.status = 401
    /\ call[1].outcome = "AuthenticationError"
    /\ call[1].startTok # None

(***************************************************************************)
(* Claims about the surface-area estimator.  estimate() is                 *)
(* _process_response; its result is in result once epc is "ret".           *)
(***************************************************************************)
Estimated == epc \in {"ret", "returned"}

(* C5: a result with total_pixels = 0 has surface_area_hectares = 0.0 and  *)
(* water_fraction = 0.0, and the estimation raised nothing.                *)
C5_ZeroPixelsGiveZeroArea ==
    /\ (Estimated /\ result.total_pixels = 0)
          => result.surface_area = 0 /\ result.water_fraction = 0
    /\ epc = "raised" => response_content = NoPayload

C5_Witness ==
    /\ Estimated
    /\ "error" \notin result.keys
    /\ result.total_pixels = 0
    /\ geometry = [coordinates |-> <<AralBox>>]

C7_FailureInput ==
    \/ ~response_content.tar
    \/ \A i \in 1..Len(response_content.members) :
          response_content.members[i].ext \notin {"tif", "tiff"}
    \/ \E i \in 1..Len(response_content.members) :
          /\ response_content.members[i].ext \in {"tif", "tiff"}
          /\ \A j \in 1..(i - 1) : response_content.members[j].ext \notin {"tif", "tiff"}
          /\ response_content.members[i].data.type = "garbage"
    \/ geometry.coordinates = <<>>
    \/ geometry.coordinates = << <<>> >>

C7_FailuresDegradeToZero ==
    /\ epc = "raised" => response_content = NoPayload
    /\ (Estimated /\ C7_FailureInput)
          => /\ result.surface_area = 0
             /\ result.water_pixels = 0
             /\ result.total_pixels = 0
             /\ result.water_fraction = 0
             /\ "error" \in result.keys
             /\ result.error # ""

C7_Witness ==
    /\ Estimated
    /\ response_content.tar
    /\ geometry.coordinates = << <<>> >>
    /\ result.error = "ValueError"
    /\ result.surface_area = 0

(* C8: the dictionary calculate_water_surface returns carries the error    *)
(* annotation exactly when the estimation degraded to zero.                *)
C8_ErrorAnnotationReachesCaller ==
    epc = "returned" => ("error" \in returned.keys <=> "error" \in result.keys)

(* C9 as stated: the area is the formula's, and for the ring UnitAt45 (a   *)
(* bounding box of 1 x 1 degree, mean latitude 45 N) with half the pixels  *)
(* water it is 437,600 ha to the precision the figure is written in (the   *)
(* nearest 100 ha).                                                        *)
C9_FormulaArea ==
    LET ring == geometry.coordinates[1]
        lonSpan == SetMax({ring[i][1] - ring[j][1] : i, j \in 1..Len(ring)})
        latSpan == SetMax({ring[i][2] - ring[j][2] : i, j \in 1..Len(ring)})
        \* (lonSpan/2 * 111.32 * cos) * (latSpan/2 * 111.32) km2 * 100 ha * 100
        box == MulMillionth(lonSpan * latSpan * 30980356,
                            CosMicro(AvgLatMicroRad(ring)))
    IN  IF result.total_pixels = 0 THEN 0
        ELSE RoundDiv(box * result.water_pixels, result.total_pixels)

C9_Decoded == Estimated /\ "error" \notin result.keys

C9_Scenario ==
    /\ C9_Decoded
    /\ geometry = [coordinates |-> <<UnitAt45>>]
    /\ result.total_pixels = 2
    /\ result.water_pixels = 1

C9_AreaIs437600 ==
    /\ C9_Decoded => result.surface_area = C9_FormulaArea
    /\ C9_Scenario => Abs(result.surface_area - 43760000) <= 5000

(* C9, amended: the area of a decoded raster is                            *)
(*   (longitude span x 111.32 x cos(mean latitude)) x (latitude span x     *)
(*   111.32) x water_fraction x 100                                        *)
(* rounded to 2 decimals, the spans being those of the bounding box and    *)
(* the mean latitude the mean over the ring's vertices; for UnitAt45 with  *)
(* half the pixels water it is 438,128.40 ha, and for AralBox (mean        *)
(* latitude 45.4 N) with every pixel water 870,118.06 ha, both up to the   *)
(* 2 ha the fixed-point cosine may be off.                                 *)
C9_AreaIs438128 ==
    /\ C9_Decoded => result.surface_area = C9_FormulaArea
    /\ C9_Scenario => Abs(result.surface_area - 43812840) <= 200
    /\ (C9_Decoded /\ geometry = [coordinates |-> <<AralBox>>]
          /\ result.total_pixels > 0
          /\ result.water_pixels = result.total_pixels)
          => Abs(result.surface_area - 87011806) <= 200

C9_Witness == C9_Scenario /\ epc = "returned" /\ returned.surface_area > 43800000

(* C10: a TIFF delivered without an archive around it gives the pixel      *)
(* counts and the area the same TIFF gives inside a tar archive.           *)
C10_Wrapped ==
    [tar |-> TRUE, body |-> Garbage,
     members |-> <<[ext |-> "tif", data |-> response_content.body]>>]

C10_BareTiffDecodesLikeArchive ==
    (Estimated /\ ~response_content.tar /\ response_content.body.type = "tiff")
    => LET w == ProcessResponse(C10_Wrapped, geometry).value
       IN  /\ result.water_pixels = w.water_pixels
           /\ result.total_pixels = w.total_pixels
           /\ result.surface_area = w.surface_area

(***************************************************************************)
(* Claims about the analytics routes.                                      *)
(***************************************************************************)

\* The areas of the series in the order of time: timestamps of one series
\* are 1..n, each once.
Chronological(hits) ==
    [i \in 1..Len(hits) |->
        (CHOOSE k \in 1..Len(hits) : hits[k].timestamp = i)]

ChronologicalAreas(hits) ==
    [i \in 1..Len(hits) |-> hits[Chronological(hits)[i]].surface_area_hectares]

Assessed(route) == endpoint = route /\ reply = Ok

\* a value in hundredths is num / den rounded to the nearest hundredth
\* (either way on a tie), for den > 0
IsRounded(hundredths, num, den) == 2 * Abs(hundredths * den - 100 * num) <= den

\* percentage_change of the drought assessment, as the fraction
\* DroughtChangeNum / DroughtChangeDen percent:
\* (current - baseline) / baseline * 100 with baseline = sum / n
DroughtChangeDen == SeqSum(ChronologicalAreas(results))
DroughtChangeNum ==
    LET a == ChronologicalAreas(results)
    IN  100 * (a[Len(a)] * Len(a) - SeqSum(a))

C12_InsufficientDataIsSignalled ==
    endpoint # "none" =>
        /\ Len(results) < 2 <=> reply = NotFound
        /\ reply = NotFound => analysis = NoAnalysis
        /\ reply = Ok => analysis.kind \in {"DroughtRiskAnalysis", "TrendAnalysis"}

C12_Witness ==
    /\ endpoint = "trend"
    /\ Len(results) = 1
    /\ reply = NotFound

(* C13: analyze_trend on a series of at least 2 points answers with an     *)
(* assessment whose start_area is the area of the chronologically first    *)
(* point and end_area that of the last, total_change = end - start,        *)
(* percentage_change = total_change / start_area * 100,                    *)
(* average_monthly_change = total_change / period_months, and whose        *)
(* direction is UP when percentage_change > 2, DOWN when it is < -2 and    *)
(* STABLE otherwise.                                                       *)
C13_TrendAssessment ==
    (endpoint = "trend" /\ Len(results) >= 2) =>
        LET a == ChronologicalAreas(results)
            start == a[1]
            end == a[Len(a)]
            change == end - start
        IN  /\ reply = Ok
            /\ analysis.start_area_hectares = 100 * start
            /\ analysis.end_area_hectares = 100 * end
            /\ analysis.total_change_hectares = 100 * change
            /\ analysis.period_months = months
            /\ start > 0 => IsRounded(analysis.percentage_change, 100 * change, start)
            /\ IsRounded(analysis.average_monthly_change, change, months)
            /\ analysis.trend_direction =
                  (IF 100 * change > 2 * start THEN "UP"
                   ELSE IF 100 * change < (0 - 2) * start THEN "DOWN"
                   ELSE "STABLE")

C15_BaselineAndChange ==
    (endpoint = "drought-risk" /\ Len(results) >= 2) =>
        LET a == ChronologicalAreas(results)
            n == Len(a)
        IN  /\ reply = Ok
            /\ IsRounded(analysis.baseline_area_hectares, SeqSum(a), n)
            /\ analysis.current_area_hectares = 100 * a[n]
            /\ DroughtChangeDen > 0 =>
                  IsRounded(analysis.percentage_change, DroughtChangeNum, DroughtChangeDen)

(***************************************************************************)
(* Claims about the ingestion run.                                         *)
(***************************************************************************)
\* the items for which the run made a request of the given kind
Requested(op) ==
    LET idx == {i \in 1..Len(log) : log[i].op = op}
    IN  {log[i].item : i \in idx}

\* how many requests of the given kind the run made for an item
TimesRequested(op, item) ==
    Cardinality({i \in 1..Len(log) : log[i].op = op /\ log[i].item = item})

(* C17: ingest_all takes the configured waterbodies once each and in the   *)
(* order of the configuration: the i-th result is the result of the i-th   *)
(* configuration, and no waterbody is asked for twice.  A failure of the   *)
(* token fetch, the imagery request or the repository write becomes that   *)
(* item's error result and the loop goes on: the only exceptions that      *)
(* leave ingest_all come from the configuration (no file, an entry without *)
(* its keys).  A returned summary has total_waterbodies = number of        *)
(* results = number of configurations and successful + failed =            *)
(* total_waterbodies, a success being an item whose document was written.  *)
C17_EveryWaterbodyOnce ==
    /\ ipc \notin {"idle", "raised"} =>
          /\ Len(run_results) = position - 1
          /\ position <= Len(waterbodies) + 1
    /\ \A i \in 1..Len(run_results) :
          /\ run_results[i].waterbody_id = waterbodies[i].waterbody_id
          /\ run_results[i].status \in {"success", "error"}
          /\ run_results[i].status = "success" =>
                /\ run_results[i].document_id \in 1..Len(documents)
                /\ documents[run_results[i].document_id].waterbody_id
                      = waterbodies[i].waterbody_id
          /\ run_results[i].status = "error" => run_results[i].error # ""
    /\ \A i \in 1..Len(waterbodies), op \in {"exchange", "imagery", "index"} :
          TimesRequested(op, i) <= 1
    /\ \A i, j \in 1..Len(log) : i < j => log[i].item <= log[j].item
    /\ ipc = "raised" =>
          \/ run_raised = "FileNotFoundError"
          \/ run_raised = "KeyError" /\ ~WellFormed(waterbodies[position])
    /\ ipc = "returned" =>
          /\ Len(run_results) = Len(waterbodies)
          /\ summary.results = run_results
          /\ summary.total_waterbodies = Len(waterbodies)
          /\ summary.successful =
                Cardinality({i \in 1..Len(log) : log[i].op = "index" /\ log[i].ok})
          /\ summary.successful + summary.failed = summary.total_waterbodies

\* the token fetch of the first waterbody failed on a malformed answer of the
\* identity service, the second waterbody was stored
C17_Witness ==
    /\ ipc = "returned"
    /\ Len(run_results) = 2
    /\ run_results[1].status = "error"
    /\ run_results[1].error = "KeyError"
    /\ run_results[2].status = "success"
    /\ summary.successful = 1
    /\ summary.failed = 1

(* C18: once a credential exchange of the run has been rejected (401), the *)
(* run issues no further credential exchange and no imagery request.       *)
C18_RejectionEndsTheRun ==
    \A i, j \in 1..Len(log) :
        (i < j /\ log[i].op = "exchange" /\ log[i].rejected)
            => log[j].op \notin {"exchange", "imagery"}

(* C19: when the configuration holds a malformed entry, the run makes no   *)
(* imagery request and no repository write for any waterbody, and it ends  *)
(* with an exception rather than a summary.                                *)
C19_MalformedConfigStopsAtStartup ==
    (\E k \in 1..Len(waterbodies) : ~WellFormed(waterbodies[k])) =>
        /\ Requested("imagery") = {}
        /\ Requested("index") = {}
        /\ ipc # "returned"

(***************************************************************************)
(* Claims about the request payload.                                       *)
(***************************************************************************)
PayloadBuilt == time_range # NoTimeRange

\* the number a sequence of digit characters spells
DigitValue(c) == (CHOOSE k \in 1..10 : DigitChars[k] = c) - 1

RECURSIVE NumberOf(_)
NumberOf(chars) ==
    IF chars = <<>> THEN 0
    ELSE 10 * NumberOf(SubSeq(chars, 1, Len(chars) - 1)) + DigitValue(chars[Len(chars)])

\* a timestamp YYYY-MM-DDThh:mm:ssZ read back into its six numbers
ReadTimestamp(chars) ==
    [year |-> NumberOf(SubSeq(chars, 1, 4)), month |-> NumberOf(SubSeq(chars, 6, 7)),
     day |-> NumberOf(SubSeq(chars, 9, 10)), hour |-> NumberOf(SubSeq(chars, 12, 13)),
     minute |-> NumberOf(SubSeq(chars, 15, 16)), second |-> NumberOf(SubSeq(chars, 18, 19))]

IsTimestamp(chars) ==
    /\ Len(chars) = 20
    /\ chars[5] = "-" /\ chars[8] = "-" /\ chars[11] = "T"
    /\ chars[14] = ":" /\ chars[17] = ":" /\ chars[20] = "Z"
    /\ \A i \in (1..19) \ {5, 8, 11, 14, 17} : \E k \in 1..10 : DigitChars[k] = chars[i]

(* C20: the payload built for a geometry and a time range carries that     *)
(* geometry, timeRange.from is the calendar date of the start at           *)
(* T00:00:00Z and timeRange.to the calendar date of the end at T23:59:59Z, *)
(* whatever the time of day of the two datetimes.                          *)
C20_TimeRangeIsWholeDays ==
    PayloadBuilt =>
        LET start_date == time_range[1]
            end_date == time_range[2]
        IN  /\ payload.geometry = payload_geometry
            /\ IsTimestamp(payload.time_from)
            /\ IsTimestamp(payload.time_to)
            /\ ReadTimestamp(payload.time_from) =
                  [start_date EXCEPT !.hour = 0, !.minute = 0, !.second = 0]
            /\ ReadTimestamp(payload.time_to) =
                  [end_date EXCEPT !.hour = 23, !.minute = 59, !.second = 59]

\* the dates of test_build_payload_date_formatting: 2024-03-15 10:30:45 and
\* 2024-03-20 18:45:30
C20_Witness ==
    /\ PayloadBuilt
    /\ time_range[1] = [year |-> 2024, month |-> 3, day |-> 15,
                        hour |-> 10, minute |-> 30, second |-> 45]
    /\ time_range[2] = [year |-> 2024, month |-> 3, day |-> 20,
                        hour |-> 18, minute |-> 45, second |-> 30]
    /\ payload.time_from = <<"2", "0", "2", "4", "-", "0", "3", "-", "1", "5", "T",
                             "0", "0", ":", "0", "0", ":", "0", "0", "Z">>
    /\ payload.time_to = <<"2", "0", "2", "4", "-", "0", "3", "-", "2", "0", "T",
                           "2", "3", ":", "5", "9", ":", "5", "9", "Z">>

(***************************************************************************)
(* Claims about the per-pixel evaluation.                                  *)
(***************************************************************************)
(* C21: a pixel whose SCL is 3, 8 or 9 is mapped to 0 whatever its bands;  *)
(* any other pixel is mapped to 1 exactly when (green - nir) /             *)
(* (green + nir + 0.0001) is strictly greater than the threshold of the    *)
(* script (0.2 or 0.0), else to 0; and no evaluation divides by zero, a    *)
(* pixel with green + nir = 0 included.                                    *)
C21_PixelClassification ==
    script # "none" =>
        LET green == sample.B03
            nir == sample.B08
            tenths == IF script = "process_api" THEN 2 ELSE 0
        IN  /\ sample.SCL \in {3, 8, 9} => pixel = 0
            /\ sample.SCL \notin {3, 8, 9} =>
                  (pixel = 1 <=>
                      10 * 10000 * (green - nir) > tenths * (10000 * (green + nir) + 1))
            /\ pixel \in {0, 1}
            /\ ~zero_division

(***************************************************************************)
(* Claims about the measurements the runs write.                           *)
(***************************************************************************)
\* the item the loop was at has just ended with a success
ItemSucceeded ==
    /\ Len(run_results') = Len(run_results) + 1
    /\ run_results'[Len(run_results')].status = "success"

(* C22: measurements are append-only.  Every step of the core leaves the   *)
(* documents the repository holds as they are and in place, and adds at    *)
(* most one; a step adds one exactly when it ends a waterbody's ingestion  *)
(* with a success, a waterbody that already has a document included.       *)
C22_AppendOnly ==
    [][/\ Len(documents') \in {Len(documents), Len(documents) + 1}
       /\ SubSeq(documents', 1, Len(documents)) = documents
       /\ ItemSucceeded <=> Len(documents') = Len(documents) + 1]_vars

\* the second run stored waterbody 1 again: both documents are held
C22_Witness ==
    /\ runs = 2
    /\ Len(documents) = 2
    /\ documents[1].waterbody_id = 1
    /\ documents[2].waterbody_id = 1
    /\ Len(run_results) = 1
    /\ run_results[1].status = "success"
    /\ run_results[1].document_id = 2

C25_StepsInOrder ==
    /\ \A item \in 1..Len(waterbodies), op \in {"token", "imagery", "index"} :
          TimesRequested(op, item) <= 1
    /\ \A i, j \in 1..Len(log) :
          (i < j /\ log[i].item = log[j].item) =>
              /\ log[j].op # "token"
              /\ log[i].op # "index"
              /\ log[j].op = "exchange" => log[i].op = "token"
              /\ log[i].op = "imagery" => log[j].op = "index" /\ log[i].ok
    /\ \A j \in 1..Len(log) :
          /\ log[j].op = "imagery" =>
                \E i \in 1..(j - 1) : log[i].op = "token" /\ log[i].item = log[j].item
          /\ log[j].op = "index" =>
                \E i \in 1..(j - 1) :
                    log[i].op = "imagery" /\ log[i].item = log[j].item /\ log[i].ok
          /\ (log[j].op = "imagery" /\ ~log[j].ok /\ ipc # "imagery") =>
                /\ Len(run_results) >= log[j].item
                /\ run_results[log[j].item].status = "error"
                /\ run_results[log[j].item].error = "Process API request failed"

\* waterbody 1 went through its three steps; the imagery request of
\* waterbody 2 failed, and the run went on without a write for it
C25_Witness ==
    /\ ipc = "returned"
    /\ Len(run_results) = 2
    /\ run_results[1].status = "success"
    /\ run_results[2].error = "Process API request failed"
    /\ \E i, j, k \in 1..Len(log) :
          /\ i < j /\ j < k
          /\ log[i].op = "token" /\ log[i].item = 1
          /\ log[j].op = "imagery" /\ log[j].item = 1 /\ log[j].ok
          /\ log[k].op = "index" /\ log[k].item = 1 /\ log[k].ok
    /\ \E j \in 1..Len(log) : log[j].op = "imagery" /\ log[j].item = 2 /\ ~log[j].ok
    /\ TimesRequested("index", 2) = 0

(***************************************************************************)
(* Claims about the cache of the token manager under failed exchanges.     *)
(***************************************************************************)
(* C26: a get_token() call that ends with an exception (rejected status,   *)
(* transport failure, answer without access_token or with an expires_in    *)
(* that is not a number) leaves access_token and token_expires_at as they  *)
(* were when the call began; and between calls the cache is empty or holds *)
(* the token and the expiry of one and the same exchange.                  *)
C26_FailedExchangeLeavesCache ==
    /\ (pc[1] = "done" /\ call[1].outcome \notin {"cached", "fetched"}) =>
          /\ access_token = call[1].startTok
          /\ token_expires_at = call[1].startExp
    /\ pc[1] = "idle" =>
          \/ access_token = None /\ token_expires_at = None
          \/ access_token # None /\ token_expires_at # None /\ expiry_of = access_token

(***************************************************************************)
(* Claims about the construction of the repository client.                 *)
(***************************************************************************)
\* no probe of the construction was answered with True
NoPingSucceeded == \A i \in 1..Len(pings) : pings[i] # "true"

(* C23: the construction probes the store at most three times; it makes no *)
(* further probe after one that succeeded; and when three probes have been *)
(* made and none succeeded, it raises 'Cannot connect' and makes no call   *)
(* to check or create the index.                                           *)
C23_ThreeProbes ==
    /\ Len(pings) <= 3
    /\ \A i \in 1..(Len(pings) - 1) : pings[i] # "true"
    /\ (Len(pings) = 3 /\ NoPingSucceeded) =>
          /\ es_pc = "raised"
          /\ es_error = "Cannot connect"
          /\ index_calls = <<>>

(* C28: the construction goes on to check or create the index, and         *)
(* completes, only if some probe was answered with True.                   *)
C28_CompletesOnlyIfConnected ==
    (es_pc \in {"ensure_index", "create_index", "ready"} \/ index_calls # <<>>) =>
        ~NoPingSucceeded

(***************************************************************************)
(* Claims about the analytics routes on series of zeros.                   *)
(***************************************************************************)
(* C27: on a series of at least 2 points, a series of zeros and a series   *)
(* that begins with a zero included, both analytics routes answer 200 with *)
(* an assessment; neither raises ZeroDivisionError.                        *)
C27_NoDivisionFault ==
    (endpoint # "none" /\ Len(results) >= 2) =>
        /\ analysis.kind # "ZeroDivisionError"
        /\ analysis.kind = (IF endpoint = "trend" THEN "TrendAnalysis"
                            ELSE "DroughtRiskAnalysis")
        /\ reply = Ok

(***************************************************************************)
(* Claims about the three drought-risk implementations.                    *)
(***************************************************************************)
\* the assessments a list holds for a waterbody
AssessmentsOf(l, w) == {l[i] : i \in {k \in 1..Len(l) : l[k].waterbody_id = w}}

(* C29: over the same repository, whose series are in ascending order, the *)
(* three list routes give every waterbody of at least 2 measurements the   *)
(* same assessment (current area, baseline, percentage_change, risk_level, *)
(* trend), and each of them answers with its assessments in the order      *)
(* CRITICAL, HIGH, MEDIUM, LOW.                                            *)
C29_ThreeImplementationsAgree ==
    /\ \A impl \in listed :
          \A i, j \in 1..Len(listing[impl]) :
              i < j => RiskOrder(listing[impl][i].risk_level)
                          <= RiskOrder(listing[impl][j].risk_level)
    /\ \A one, other \in listed :
          \A w \in 1..Len(store) :
              Len(store[w]) >= 2 =>
                  AssessmentsOf(listing[one], w) = AssessmentsOf(listing[other], w)

(***************************************************************************)
(* Claims about the order in which a series is delivered.                  *)
(***************************************************************************)
\* the series r in the order p
Reordered(r, p) == [i \in 1..Len(r) |-> r[p[i]]]

(* C30: the assessment a route gives is the one it gives for every other   *)
(* order of the same points, points that share a timestamp and differ in   *)
(* area included.                                                          *)
C30_OrderOfDeliveryIsIrrelevant ==
    delivered_to # "none" =>
        \A p \in Permutations(1..Len(delivered)) :
            AssessmentOf(delivered_to, Reordered(delivered, p), delivered_months)
                = assessment

====
